---------------------------- MODULE Spec2Model ----------------------------
(***************************************************************************)
(* A model of m3u8-to-folder: PlaylistParser, FileSearcher, FileCopier and *)
(* the run_application pipeline that chains them.                          *)
(*                                                                         *)
(* Strings are sequences of one-character strings, so that lower(),        *)
(* endswith(), startswith(), Path.name and urlparse are computed, not      *)
(* assumed.                                                                *)
(***************************************************************************)
EXTENDS Integers, Sequences, FiniteSets, TLC

VARIABLES
    cfg,            \* the Config snapshot read by every component
    playlist,       \* the playlist document on disk
    media,          \* the media folder on disk
    out,            \* the output folder on disk
    media_files,    \* PlaylistParser.media_files
    found_files,    \* FileSearcher.found_files
    copy_results,   \* FileCopier.copy_results
    call,           \* the last component call: its arguments, return value, exception
    run             \* the state of main()/run_application

fsVars == <<playlist, media, out>>
parserVars == <<media_files>>
searcherVars == <<found_files>>
copierVars == <<copy_results>>
vars == <<cfg, playlist, media, out, media_files, found_files, copy_results, call, run>>

(***************************************************************************)
(* Bounds of the model.                                                    *)
(***************************************************************************)
MaxSegments == 3
MaxTargets == 2
MaxBatch == 2

(***************************************************************************)
(* Strings.  A string of the program is a TLA+ string; CharsOf gives its   *)
(* characters, and str.lower(), endswith(), startswith(), Path.name and    *)
(* urlparse are computed on the characters (once, into tables).            *)
(***************************************************************************)
Strings ==
    {"", "a.mp4", "A.MP4", "b.mkv", "s.mp4", "c.txt", "sub", "m", "o", ".mp4", ".mkv",
     "d/a.mp4", "http://h/a.mp4?x", "http://h/x?f=b.mkv", "x?f=b.mkv", "d/b.mkv/",
     "x", "a.mp4?x", "http://", "https://", "ftp://", "a_1.mp4"}

Chars(s) ==
    CASE s = "" -> <<>>
      [] s = "m" -> <<"m">>
      [] s = "o" -> <<"o">>
      [] s = "x" -> <<"x">>
      [] s = "a.mp4?x" -> <<"a",".","m","p","4","?","x">>
      [] s = "a.mp4" -> <<"a",".","m","p","4">>
      [] s = "a_1.mp4" -> <<"a","_","1",".","m","p","4">>
      [] s = "A.MP4" -> <<"A",".","M","P","4">>
      [] s = "b.mkv" -> <<"b",".","m","k","v">>
      [] s = "s.mp4" -> <<"s",".","m","p","4">>
      [] s = "c.txt" -> <<"c",".","t","x","t">>
      [] s = "sub" -> <<"s","u","b">>
      [] s = ".mp4" -> <<".","m","p","4">>
      [] s = ".mkv" -> <<".","m","k","v">>
      [] s = "d/a.mp4" -> <<"d","/","a",".","m","p","4">>
      [] s = "http://h/a.mp4?x" -> <<"h","t","t","p",":","/","/","h","/","a",".","m","p","4","?","x">>
      [] s = "http://h/x?f=b.mkv" -> <<"h","t","t","p",":","/","/","h","/","x","?","f","=","b",".","m","k","v">>
      [] s = "x?f=b.mkv" -> <<"x","?","f","=","b",".","m","k","v">>
      [] s = "d/b.mkv/" -> <<"d","/","b",".","m","k","v","/">>
      [] s = "http://" -> <<"h","t","t","p",":","/","/">>
      [] s = "https://" -> <<"h","t","t","p","s",":","/","/">>
      [] s = "ftp://" -> <<"f","t","p",":","/","/">>

CharsOf == [s \in Strings |-> Chars(s)]

\* The string with the characters cs.
Str(cs) == CHOOSE s \in Strings : CharsOf[s] = cs

\* Python's None, and the empty string: both are falsy where the code tests them.
None == ""

LowerChar(c) ==
    CASE c = "A" -> "a"
      [] c = "M" -> "m"
      [] c = "P" -> "p"
      [] c = "K" -> "k"
      [] c = "V" -> "v"
      [] OTHER -> c

RECURSIVE LowerChars(_)
LowerChars(cs) == IF cs = <<>> THEN <<>> ELSE <<LowerChar(Head(cs))>> \o LowerChars(Tail(cs))

LowerOf == [s \in Strings |-> Str(LowerChars(CharsOf[s]))]

\* str.lower()
Lower(s) == LowerOf[s]

\* str.startswith(p), on characters
StartsWith(cs, p) == Len(cs) >= Len(p) /\ SubSeq(cs, 1, Len(p)) = p

\* str.endswith(p), on characters
EndsWith(cs, p) == Len(cs) >= Len(p) /\ SubSeq(cs, Len(cs) - Len(p) + 1, Len(cs)) = p

\* str.find(c, from): the first index >= from holding c, 0 when there is none.
Find(cs, c, from) ==
    LET hits == {i \in from..Len(cs) : cs[i] = c}
    IN  IF hits = {} THEN 0 ELSE CHOOSE i \in hits : \A j \in hits : i <= j

\* str.rfind(c): the last index holding c, 0 when there is none.
RFind(cs, c) ==
    LET hits == {i \in 1..Len(cs) : cs[i] = c}
    IN  IF hits = {} THEN 0 ELSE CHOOSE i \in hits : \A j \in hits : i >= j

\* The first index holding one of the characters in stop, Len(cs)+1 when none.
FirstOf(cs, stop) ==
    LET hits == {i \in 1..Len(cs) : cs[i] \in stop}
    IN  IF hits = {} THEN Len(cs) + 1 ELSE CHOOSE i \in hits : \A j \in hits : i <= j

\* Config.supported_extensions: the configured list, in order.
SupportedExtensions == <<".mp4", ".mkv">>

\* An extension test that accepts every filename.
ExtensionMatchesAnything(filename) == filename # ""

\* _has_supported_extension(filename), the same in the three components
ExtensionMatches(filename) ==
    /\ filename # ""
    /\ \E k \in 1..Len(SupportedExtensions) :
          EndsWith(CharsOf[Lower(filename)], CharsOf[Lower(SupportedExtensions[k])])

SupportedNames == {s \in Strings : ExtensionMatches(s)}

HasSupportedExtension(filename) == filename \in SupportedNames

\* pathlib: trailing slashes are dropped when a path is parsed.
RECURSIVE StripSlashes(_)
StripSlashes(cs) ==
    IF cs # <<>> /\ cs[Len(cs)] = "/" THEN StripSlashes(SubSeq(cs, 1, Len(cs) - 1)) ELSE cs

\* Path(text).name: the last component, on characters.
PathName(cs) ==
    LET p == StripSlashes(cs)
    IN  SubSeq(p, RFind(p, "/") + 1, Len(p))

\* urlparse(text).path for a scheme://netloc/path;params?query#fragment text.
UrlPath(cs) ==
    LET rest == SubSeq(cs, Find(cs, ":", 1) + 3, Len(cs))
        pstart == FirstOf(rest, {"/", "?", "#"})
        pend == FirstOf(rest, {"?", "#"})
        path == SubSeq(rest, pstart, pend - 1)
        semi == Find(path, ";", RFind(path, "/") + 1)
    IN  IF semi = 0 THEN path ELSE SubSeq(path, 1, semi - 1)

(***************************************************************************)
(* PlaylistParser.                                                         *)
(***************************************************************************)
SegmentURIs ==
    {"", "a.mp4", "d/a.mp4", "http://h/a.mp4?x", "b.mkv", "A.MP4", "c.txt",
     "http://h/x?f=b.mkv", "d/b.mkv/"}

\* _extract_filename(text)
ExtractFrom(text) ==
    IF text = "" THEN None
    ELSE LET cs == CharsOf[text]
             isUrl == \E p \in {"http://", "https://", "ftp://"} : StartsWith(cs, CharsOf[p])
             urlName == Str(PathName(UrlPath(cs)))
             pathName == Str(PathName(cs))
         IN  IF isUrl /\ urlName # "" /\ HasSupportedExtension(urlName) THEN urlName
             ELSE IF pathName # "" /\ HasSupportedExtension(pathName) THEN pathName
             ELSE IF HasSupportedExtension(text) THEN text
             ELSE None

ExtractOf == [u \in SegmentURIs |-> ExtractFrom(u)]

ExtractFilename(text) == ExtractOf[text]

\* The loop over playlist.segments: one appended filename per segment that has a
\* URI from which a filename is extracted.
RECURSIVE ExtractAll(_)
ExtractAll(segments) ==
    IF segments = <<>> THEN <<>>
    ELSE LET uri == Head(segments)
             filename == ExtractFilename(uri)
         IN  IF uri # "" /\ filename # None
             THEN <<filename>> \o ExtractAll(Tail(segments))
             ELSE ExtractAll(Tail(segments))

\* A deduplication that keeps the last occurrence of each key.
RECURSIVE DictFromKeysLast(_)
DictFromKeysLast(s) ==
    IF s = <<>> THEN <<>>
    ELSE LET rest == DictFromKeysLast(Tail(s))
         IN  IF \E i \in 1..Len(rest) : rest[i] = Head(s) THEN rest ELSE <<Head(s)>> \o rest

\* list(dict.fromkeys(s)): the keys in first-insertion order.
RECURSIVE DictFromKeys(_)
DictFromKeys(s) ==
    IF s = <<>> THEN <<>>
    ELSE LET front == DictFromKeys(SubSeq(s, 1, Len(s) - 1))
             last == s[Len(s)]
         IN  IF \E i \in 1..Len(front) : front[i] = last THEN front ELSE Append(front, last)

\* parse_playlist: what it returns or raises, and the parser's list afterwards.
ParsePlaylist(doc, old_media_files) ==
    IF ~doc.exists
    THEN [raised |-> "FileNotFoundError", ret |-> <<>>, media_files |-> old_media_files]
    ELSE IF ~doc.valid
    THEN [raised |-> "Exception", ret |-> <<>>, media_files |-> old_media_files]
    ELSE LET files == DictFromKeys(ExtractAll(doc.segments))
         IN  [raised |-> "none", ret |-> files, media_files |-> files]

RECURSIVE SeqsUpTo(_, _)
SeqsUpTo(S, n) ==
    IF n = 0 THEN {<<>>}
    ELSE LET shorter == SeqsUpTo(S, n - 1)
         IN  shorter \cup {Append(s, x) : s \in {t \in shorter : Len(t) = n - 1}, x \in S}

Playlists ==
    {[exists |-> TRUE, valid |-> TRUE, segments |-> s] : s \in SeqsUpTo(SegmentURIs, MaxSegments)}
    \cup {[exists |-> TRUE, valid |-> FALSE, segments |-> <<>>],
          [exists |-> FALSE, valid |-> FALSE, segments |-> <<>>]}

\* What the environment may put in the document's place between two calls.
ShortPlaylists ==
    {[exists |-> TRUE, valid |-> TRUE, segments |-> s] : s \in SeqsUpTo(SegmentURIs, 1)}
    \cup {[exists |-> TRUE, valid |-> FALSE, segments |-> <<>>],
          [exists |-> FALSE, valid |-> FALSE, segments |-> <<>>]}

NoCall == [op |-> "none"]

DefaultCfg ==
    [case_sensitive |-> FALSE, overwrite_existing |-> FALSE, maintain_structure |-> FALSE,
     recursive_search |-> TRUE, follow_symlinks |-> FALSE]

InitParser ==
    /\ cfg = DefaultCfg
    /\ playlist \in Playlists
    /\ media = <<>>
    /\ out = <<>>
    /\ media_files = <<>>
    /\ found_files = <<>>
    /\ copy_results = <<>>
    /\ call = NoCall
    /\ run = <<>>

\* PlaylistParser.parse_playlist(playlist_path).  It returns self.media_files itself:
\* call.shared says that the returned list is the parser's own list object.
ParsePlaylistCall ==
    LET r == ParsePlaylist(playlist, media_files)
    IN  /\ media_files' = r.media_files
        /\ call' = [op |-> "parse_playlist", segments |-> playlist.segments,
                    readable |-> (playlist.exists /\ playlist.valid),
                    raised |-> r.raised, ret |-> r.ret,
                    shared |-> (r.raised = "none"), mutated |-> FALSE,
                    accumulator |-> r.media_files]
        /\ UNCHANGED <<cfg, fsVars, searcherVars, copierVars, run>>

\* PlaylistParser.get_media_files(): returns self.media_files.copy()
GetMediaFilesCall ==
    /\ call' = [op |-> "get_media_files", raised |-> "none", ret |-> media_files,
                shared |-> FALSE, mutated |-> FALSE, accumulator |-> media_files]
    /\ UNCHANGED <<cfg, fsVars, parserVars, searcherVars, copierVars, run>>

\* What a caller may do to a list it was handed: clear it, or append an entry.
ListMutations(list) ==
    {<<>>} \cup {Append(list, x) : x \in {"c.txt"} \ {list[i] : i \in 1..Len(list)}}

\* The caller mutates, in place, the list the last parser call returned.  A list that
\* is the parser's own object changes for the parser too.
CallerMutatesResult ==
    /\ call.op \in {"parse_playlist", "get_media_files"}
    /\ call.raised = "none"
    /\ ~call.mutated
    /\ \E list \in ListMutations(call.ret) \ {call.ret} :
          /\ call' = [call EXCEPT !.ret = list, !.mutated = TRUE]
          /\ media_files' = IF call.shared THEN list ELSE media_files
    /\ UNCHANGED <<cfg, fsVars, searcherVars, copierVars, run>>

\* The environment replaces the playlist document (by a short one, or removes it).
RewritePlaylist ==
    /\ call.op # "none"
    /\ playlist' \in ShortPlaylists
    /\ call' = NoCall
    /\ UNCHANGED <<cfg, media, out, parserVars, searcherVars, copierVars, run>>

NextParser == ParsePlaylistCall \/ GetMediaFilesCall \/ RewritePlaylist

SpecParser == InitParser /\ [][NextParser]_vars

\* The parser with a caller that mutates the lists it is handed.
NextParserCaller == ParsePlaylistCall \/ GetMediaFilesCall \/ CallerMutatesResult

SpecParserCaller == InitParser /\ [][NextParserCaller]_vars

\* C13 (as stated, for the parser): when the caller has mutated the list returned by
\* parse_playlist or get_media_files, the parser's list (what get_media_files returns
\* next) is still what it was when that call returned.
C13_ReturnedListsAreCopies ==
    (call.op \in {"parse_playlist", "get_media_files"} /\ call.raised = "none"
        /\ call.mutated) => media_files = call.accumulator

\* name ends, compared case-insensitively, with a configured extension.
EndsWithSupportedExtension(name) ==
    \E k \in 1..Len(SupportedExtensions) :
        EndsWith(CharsOf[Lower(name)], CharsOf[Lower(SupportedExtensions[k])])

\* The candidates a segment URI gives: the name of its URL path, the name of the
\* URI taken as a path, and the URI itself.
Candidates(uri) ==
    {Str(PathName(CharsOf[uri])), uri}
    \cup (IF \E p \in {"http://", "https://", "ftp://"} :
                StartsWith(CharsOf[uri], CharsOf[p])
          THEN {Str(PathName(UrlPath(CharsOf[uri])))} ELSE {})

\* The segments with a URI of which some candidate has a supported extension.
Contributing(segments) ==
    {k \in 1..Len(segments) :
        /\ segments[k] # ""
        /\ \E c \in Candidates(segments[k]) : c # "" /\ EndsWithSupportedExtension(c)}

\* C19: parse_playlist of a readable playlist raises nothing, and every filename in the
\* returned list ends, compared case-insensitively, with a supported extension and is a
\* candidate of a segment that has a URI; segments without URI and segments none of
\* whose candidates has a supported extension add nothing to the list.
C19_OnlySupportedExtensions ==
    call.op = "parse_playlist" =>
        /\ call.readable => call.raised = "none"
        /\ call.raised = "none" =>
              /\ \A i \in 1..Len(call.ret) :
                    /\ EndsWithSupportedExtension(call.ret[i])
                    /\ \E k \in Contributing(call.segments) :
                          call.ret[i] \in Candidates(call.segments[k])
              /\ Len(call.ret) <= Cardinality(Contributing(call.segments))

\* A playlist with a segment without URI, one with an unsupported extension and one
\* with an upper-case supported extension: only the last is returned.
C19_Witness ==
    /\ call.op = "parse_playlist" /\ call.raised = "none"
    /\ call.segments = <<"", "c.txt", "A.MP4">>
    /\ call.ret = <<"A.MP4">>

(***************************************************************************)
(* C10: for all playlists the list returned by parse_playlist holds no     *)
(* filename twice, and filename x precedes filename y in it exactly when   *)
(* the first segment yielding x precedes the first segment yielding y.     *)
(***************************************************************************)
FirstSegment(segments, x) ==
    CHOOSE k \in 1..Len(segments) :
        /\ segments[k] # "" /\ ExtractFilename(segments[k]) = x
        /\ \A j \in 1..(k - 1) : ~(segments[j] # "" /\ ExtractFilename(segments[j]) = x)

C10_UniqueFirstOccurrenceOrder ==
    (call.op = "parse_playlist" /\ call.raised = "none") =>
        /\ \A i, j \in 1..Len(call.ret) : call.ret[i] = call.ret[j] => i = j
        /\ \A i \in 1..Len(call.ret) :
              \E k \in 1..Len(call.segments) :
                  call.segments[k] # "" /\ ExtractFilename(call.segments[k]) = call.ret[i]
        /\ \A k \in 1..Len(call.segments) :
              (call.segments[k] # "" /\ ExtractFilename(call.segments[k]) # None) =>
                  \E i \in 1..Len(call.ret) : call.ret[i] = ExtractFilename(call.segments[k])
        /\ \A i, j \in 1..Len(call.ret) :
              (i < j) <=> (FirstSegment(call.segments, call.ret[i])
                            < FirstSegment(call.segments, call.ret[j]))

\* The playlist a.mp4, b.mkv, a.mp4 has been parsed to [a.mp4, b.mkv].
C10_Witness ==
    /\ call.op = "parse_playlist"
    /\ call.raised = "none"
    /\ call.segments = <<"a.mp4", "b.mkv", "a.mp4">>
    /\ call.ret = <<"a.mp4", "b.mkv">>


(***************************************************************************)
(* The media folder.  A path is the sequence of its components; the media  *)
(* folder is <<"m">>.  media.entries lists the tree in the order rglob  *)
(* (or iterdir) yields it.                                                 *)
(***************************************************************************)
MediaRoot == <<"m">>

Name(path) == path[Len(path)]

Parent(path) == SubSeq(path, 1, Len(path) - 1)

MediaCandidates ==
    << [path |-> <<"m", "a.mp4">>, kind |-> "file", content |-> <<1>>, target |-> <<>>],
       [path |-> <<"m", "b.mkv">>, kind |-> "file", content |-> <<2, 2>>, target |-> <<>>],
       [path |-> <<"m", "A.MP4">>, kind |-> "file", content |-> <<3>>, target |-> <<>>],
       [path |-> <<"m", "c.txt">>, kind |-> "file", content |-> <<4>>, target |-> <<>>],
       [path |-> <<"m", "sub">>, kind |-> "dir", content |-> <<>>, target |-> <<>>],
       [path |-> <<"m", "sub", "a.mp4">>, kind |-> "file", content |-> <<5, 5>>, target |-> <<>>],
       [path |-> <<"m", "sub", "b.mkv">>, kind |-> "symlink", content |-> <<>>,
        target |-> <<"m", "b.mkv">>],
       [path |-> <<"m", "t">>, kind |-> "dir", content |-> <<>>, target |-> <<>>],
       [path |-> <<"m", "t", "b.mkv">>, kind |-> "file", content |-> <<6>>, target |-> <<>>] >>

\* The entries of s that keep holds, in the order of s.
RECURSIVE SelectSeq2(_, _)
SelectSeq2(s, keep) ==
    IF s = <<>> THEN <<>>
    ELSE IF Head(s) \in keep THEN <<Head(s)>> \o SelectSeq2(Tail(s), keep)
    ELSE SelectSeq2(Tail(s), keep)

Range(s) == {s[i] : i \in 1..Len(s)}

\* The entries every modelled tree holds, and those it may hold.
FixedEntries == {MediaCandidates[k] : k \in {1, 2, 4, 5}}

OptionalEntries == {MediaCandidates[k] : k \in {3, 6, 7}}

MediaTrees ==
    {[root |-> "dir", entries |-> SelectSeq2(MediaCandidates, FixedEntries \cup keep)] :
        keep \in SUBSET OptionalEntries}
    \cup {[root |-> "missing", entries |-> <<>>], [root |-> "file", entries |-> <<>>]}

\* The kinds of a directory the searching user may not fully access: one that cannot
\* be listed (no read permission: scandir raises PermissionError), and one that can be
\* listed but not searched (no search permission: stat of an entry in it raises
\* PermissionError).
DeniedKinds == {"dir_unlistable", "dir_unsearchable"}

\* The tree with the directory m/sub, a file in it, and a readable directory m/t
\* iterated after it, m/sub being of the given kind.
DeniedTree(kind) ==
    [root |-> "dir",
     entries |-> [k \in 1..7 |->
                    LET e == SelectSeq2(MediaCandidates,
                                        FixedEntries \cup {MediaCandidates[i] : i \in {6, 8, 9}})[k]
                    IN  IF e.path = <<"m", "sub">> THEN [e EXCEPT !.kind = kind] ELSE e]]

DeniedTrees == {DeniedTree(kind) : kind \in DeniedKinds}

\* The kind of the directory at path.
DirKind(entries, path) ==
    IF path = MediaRoot THEN "dir"
    ELSE entries[CHOOSE k \in 1..Len(entries) : entries[k].path = path].kind

\* Path.resolve(): a symbolic link resolves to its target.
Resolve(entries, path) ==
    LET links == {k \in 1..Len(entries) : entries[k].path = path /\ entries[k].kind = "symlink"}
    IN  IF links = {} THEN path ELSE entries[CHOOSE k \in links : TRUE].target

\* Path.exists(): follows symbolic links.
Exists(entries, path) ==
    LET real == Resolve(entries, path)
    IN  \E k \in 1..Len(entries) : entries[k].path = real /\ entries[k].kind # "symlink"

\* Path.is_file(): follows symbolic links.
IsFile(entries, path) ==
    LET real == Resolve(entries, path)
    IN  \E k \in 1..Len(entries) : entries[k].path = real /\ entries[k].kind = "file"

IsSymlink(entries, path) ==
    \E k \in 1..Len(entries) : entries[k].path = path /\ entries[k].kind = "symlink"

Content(entries, path) ==
    LET real == Resolve(entries, path)
    IN  entries[CHOOSE k \in 1..Len(entries) :
                    entries[k].path = real /\ entries[k].kind = "file"].content

\* Path.stat().st_size
StatSize(entries, path) == Len(Content(entries, path))

(***************************************************************************)
(* FileSearcher.                                                           *)
(***************************************************************************)
\* FileSearchResult(filename, full_path)
FileSearchResult(entries, filename, full_path) ==
    [filename |-> filename, full_path |-> full_path,
     size |-> IF Exists(entries, full_path) /\ IsFile(entries, full_path)
              THEN StatSize(entries, full_path) ELSE 0]

\* _iterate_files with the symbolic-link test left out.
RECURSIVE IterateLoopAllLinks(_, _, _)
IterateLoopAllLinks(c, entries, k) ==
    IF k > Len(entries) THEN <<>>
    ELSE LET item == entries[k].path
         IN  IF ~(c.recursive_search \/ Parent(item) = MediaRoot)
             THEN IterateLoopAllLinks(c, entries, k + 1)
             ELSE IF DirKind(entries, Parent(item)) = "dir_unlistable"
             THEN IterateLoopAllLinks(c, entries, k + 1)
             ELSE IF DirKind(entries, Parent(item)) = "dir_unsearchable"
             THEN <<>>
             ELSE IF IsFile(entries, item) /\ HasSupportedExtension(Name(item))
             THEN <<item>> \o IterateLoopAllLinks(c, entries, k + 1)
             ELSE IterateLoopAllLinks(c, entries, k + 1)

\* The loop of _iterate_files from the k-th item on: rglob('*') when
\* recursive_search, iterdir() otherwise.  rglob passes over a directory it cannot
\* list; item.is_file() on an entry of a directory that cannot be searched raises
\* PermissionError, which the except clause around the whole loop logs, and the
\* generator ends there.
RECURSIVE IterateLoop(_, _, _)
IterateLoop(c, entries, k) ==
    IF k > Len(entries) THEN <<>>
    ELSE LET item == entries[k].path
         IN  IF ~(c.recursive_search \/ Parent(item) = MediaRoot)
             THEN IterateLoop(c, entries, k + 1)
             ELSE IF DirKind(entries, Parent(item)) = "dir_unlistable"
             THEN IterateLoop(c, entries, k + 1)
             ELSE IF DirKind(entries, Parent(item)) = "dir_unsearchable"
             THEN <<>>
             ELSE IF /\ IsFile(entries, item)
                     /\ ~(~c.follow_symlinks /\ IsSymlink(entries, item))
                     /\ HasSupportedExtension(Name(item))
             THEN <<item>> \o IterateLoop(c, entries, k + 1)
             ELSE IterateLoop(c, entries, k + 1)

IterateFilesAllLinks(c, entries) == IterateLoopAllLinks(c, entries, 1)

\* _iterate_files(directory): the paths it yields, in iteration order.
IterateFiles(c, entries) == IterateLoop(c, entries, 1)

\* {filename: [] for filename in target_filenames}: one key per distinct target,
\* in first-occurrence order.
RECURSIVE EmptyLists(_)
EmptyLists(keys) ==
    IF keys = <<>> THEN <<>>
    ELSE <<[key |-> Head(keys), results |-> <<>>]>> \o EmptyLists(Tail(keys))

\* A mapping initialised without any key.
EmptyResultsNoKeys(targets) == <<>>

EmptyResults(targets) == EmptyLists(DictFromKeys(targets))

\* self.found_files[key].append(result)
RECURSIVE AppendResult(_, _, _)
AppendResult(found, key, result) ==
    IF found = <<>> THEN <<>>
    ELSE IF Head(found).key = key
    THEN <<[key |-> key, results |-> Append(Head(found).results, result)]>> \o Tail(found)
    ELSE <<Head(found)>> \o AppendResult(Tail(found), key, result)

\* The body of the search loop for one yielded file.
MatchFile(c, entries, targets, found, file_path) ==
    LET filename == Name(file_path)
    IN  IF c.case_sensitive
        THEN IF filename \in Range(targets)
             THEN AppendResult(found, filename, FileSearchResult(entries, filename, file_path))
             ELSE found
        ELSE LET hits == {k \in 1..Len(targets) : Lower(filename) = Lower(targets[k])}
             IN  IF hits = {} THEN found
                 ELSE LET k == CHOOSE k \in hits : \A j \in hits : k <= j
                      IN  AppendResult(found, targets[k],
                                       FileSearchResult(entries, targets[k], file_path))

RECURSIVE SearchLoop(_, _, _, _, _)
SearchLoop(c, entries, targets, found, files) ==
    IF files = <<>> THEN found
    ELSE SearchLoop(c, entries, targets,
                    MatchFile(c, entries, targets, found, Head(files)), Tail(files))

\* A search_files that initialises found_files before it tests the folder.
SearchFilesResetFirst(c, m, targets, old_found) ==
    IF m.root = "missing"
    THEN [raised |-> "FileNotFoundError", ret |-> <<>>, found_files |-> EmptyResults(targets)]
    ELSE IF m.root # "dir"
    THEN [raised |-> "NotADirectoryError", ret |-> <<>>,
          found_files |-> EmptyResults(targets)]
    ELSE LET found == SearchLoop(c, m.entries, targets, EmptyResults(targets),
                                 IterateFiles(c, m.entries))
         IN  [raised |-> "none", ret |-> found, found_files |-> found]

\* search_files(media_folder, target_filenames)
SearchFiles(c, m, targets, old_found) ==
    IF m.root = "missing"
    THEN [raised |-> "FileNotFoundError", ret |-> <<>>, found_files |-> old_found]
    ELSE IF m.root # "dir"
    THEN [raised |-> "NotADirectoryError", ret |-> <<>>, found_files |-> old_found]
    ELSE LET found == SearchLoop(c, m.entries, targets, EmptyResults(targets),
                                 IterateFiles(c, m.entries))
         IN  [raised |-> "none", ret |-> found, found_files |-> found]

\* All results of all targets, in the order of the mapping.
RECURSIVE AllResults(_)
AllResults(found) ==
    IF found = <<>> THEN <<>> ELSE Head(found).results \o AllResults(Tail(found))

RECURSIVE DedupByPath(_, _)
DedupByPath(results, seen_paths) ==
    IF results = <<>> THEN <<>>
    ELSE IF Head(results).full_path \in seen_paths
    THEN DedupByPath(Tail(results), seen_paths)
    ELSE <<Head(results)>> \o DedupByPath(Tail(results), seen_paths \cup {Head(results).full_path})

\* get_unique_matches()
GetUniqueMatches(found) == DedupByPath(AllResults(found), {})

\* FileSearcher.get_statistics()
SearcherStatistics(found) ==
    [total_matches |-> Len(AllResults(found)),
     files_with_matches |-> Cardinality({i \in 1..Len(found) : found[i].results # <<>>}),
     target_files |-> Len(found),
     unique_files |-> Len(GetUniqueMatches(found))]

TargetNames == {"a.mp4", "A.MP4", "b.mkv"}

TargetLists == SeqsUpTo(TargetNames, MaxTargets)

Configs ==
    [case_sensitive : BOOLEAN, overwrite_existing : {FALSE}, maintain_structure : {FALSE},
     recursive_search : BOOLEAN, follow_symlinks : BOOLEAN]

InitSearcher ==
    /\ cfg \in Configs
    /\ playlist = [exists |-> FALSE, valid |-> FALSE, segments |-> <<>>]
    /\ media \in MediaTrees \cup DeniedTrees
    /\ out = <<>>
    /\ media_files = <<>>
    /\ found_files = <<>>
    /\ copy_results = <<>>
    /\ call = NoCall
    /\ run = <<>>

\* FileSearcher.search_files(media_folder, target_filenames).  call records, besides
\* the arguments and the result, the tree that was searched, the keys of the mapping
\* stored before the call that are no targets of it and, when the call raises, the
\* mapping stored before it.
SearchFilesCall ==
    \E targets \in TargetLists :
        \E r \in {SearchFiles(cfg, media, targets, found_files)} :
            /\ found_files' = r.found_files
            /\ call' = [op |-> "search_files", targets |-> targets,
                        raised |-> r.raised, ret |-> r.ret,
                        root |-> media.root, entries |-> media.entries,
                        stale_keys |-> {found_files[i].key : i \in 1..Len(found_files)}
                                           \ {targets[i] : i \in 1..Len(targets)},
                        before |-> IF r.raised = "none" THEN <<>> ELSE found_files]
            /\ UNCHANGED <<cfg, fsVars, parserVars, copierVars, run>>

\* FileSearcher.get_unique_matches()
GetUniqueMatchesCall ==
    /\ call' = [op |-> "get_unique_matches", raised |-> "none",
                ret |-> GetUniqueMatches(found_files)]
    /\ UNCHANGED <<cfg, fsVars, parserVars, searcherVars, copierVars, run>>

\* The media folder is removed, or replaced by a regular file, between two searches.
MediaReplaced ==
    /\ media.root = "dir"
    /\ found_files # <<>>
    /\ \E kind \in {"missing", "file"} : media' = [root |-> kind, entries |-> <<>>]
    /\ UNCHANGED <<cfg, playlist, out, parserVars, searcherVars, copierVars, call, run>>

NextSearcher == SearchFilesCall \/ GetUniqueMatchesCall

SpecSearcher == InitSearcher /\ [][NextSearcher]_vars

\* Searches of a media folder that may be removed or replaced between them, under the
\* default configuration.
InitSearcherRoot ==
    /\ InitSearcher
    /\ cfg = DefaultCfg
    /\ media \in {t \in MediaTrees : t.root = "dir" => Len(t.entries) \in {4, 7}}

NextSearcherRoot == SearchFilesCall \/ MediaReplaced

SpecSearcherRoot == InitSearcherRoot /\ [][NextSearcherRoot]_vars

Keys(found) == {found[i].key : i \in 1..Len(found)}

\* The files the last search of the media folder compared with the targets.
Iterated == Range(IterateFiles(cfg, call.entries))

\* The configured equality of a file's base name and a target name.
NameEquals(filename, target) ==
    IF cfg.case_sensitive THEN filename = target ELSE Lower(filename) = Lower(target)

\* C11: after a search_files call that returned, the returned mapping and the stored
\* one have exactly the input target filenames as keys, each once, with an empty list
\* for every target that no iterated file equals; no key of the mapping stored by the
\* earlier call is left unless it is a target of this call.
C11_KeysAreExactlyTheTargets ==
    (call.op = "search_files" /\ call.raised = "none") =>
        /\ call.ret = found_files
        /\ Keys(found_files) = Range(call.targets)
        /\ \A i, j \in 1..Len(found_files) : found_files[i].key = found_files[j].key => i = j
        /\ \A i \in 1..Len(found_files) :
              (\A p \in Iterated : ~NameEquals(Name(p), found_files[i].key))
                  => found_files[i].results = <<>>
        /\ \A key \in call.stale_keys : key \notin Keys(found_files)

\* A second search whose targets differ from the first one's: a key of the first
\* mapping is gone, and a target without a match has an empty list.
C11_Witness ==
    /\ call.op = "search_files" /\ call.raised = "none"
    /\ call.stale_keys # {}
    /\ \E i \in 1..Len(found_files) : found_files[i].results = <<>>
    /\ \E i \in 1..Len(found_files) : found_files[i].results # <<>>

\* C12 (as stated): after a search_files call that returned, for every iterated file and
\* every target that equals the file's base name under the configured equality, that
\* target's list holds a result for the file, also when several targets equal each
\* other under that equality.
C12_EveryEqualTargetGetsTheFile ==
    (call.op = "search_files" /\ call.raised = "none") =>
        \A p \in Iterated : \A i \in 1..Len(found_files) :
            NameEquals(Name(p), found_files[i].key) =>
                \E k \in 1..Len(found_files[i].results) :
                    found_files[i].results[k].full_path = p

\* The files of the searched tree that lie in directories the user may access and that
\* the configured iteration is to yield.
ReadableMediaFiles ==
    {call.entries[k].path : k \in
        {k \in 1..Len(call.entries) :
            /\ DirKind(call.entries, Parent(call.entries[k].path)) \notin DeniedKinds
            /\ IsFile(call.entries, call.entries[k].path)
            /\ (cfg.follow_symlinks \/ ~IsSymlink(call.entries, call.entries[k].path))
            /\ HasSupportedExtension(Name(call.entries[k].path))}}

\* C14 (as stated): a recursive search of a tree with a subdirectory whose iteration
\* raises a permission error raises nothing, and every file of the readable
\* directories that equals a target is in the list of some target.
C14_DeniedSubdirectoryIsSkipped ==
    (/\ call.op = "search_files"
     /\ cfg.recursive_search
     /\ \E k \in 1..Len(call.entries) : call.entries[k].kind \in DeniedKinds) =>
        /\ call.raised = "none"
        /\ \A p \in ReadableMediaFiles :
              (\E i \in 1..Len(found_files) : NameEquals(Name(p), found_files[i].key))
                  => \E i \in 1..Len(found_files) : \E k \in 1..Len(found_files[i].results) :
                         found_files[i].results[k].full_path = p

\* C18: a search_files call on a root that does not exist raises FileNotFoundError, one
\* on a root that is not a directory raises NotADirectoryError, one on a directory
\* raises nothing; and after a call that raised, the stored mapping (hence
\* get_unique_matches and get_statistics) is the one stored before the call.
C18_BadRootRaisesAndKeepsResults ==
    call.op = "search_files" =>
        /\ call.raised = (CASE call.root = "missing" -> "FileNotFoundError"
                            [] call.root = "file" -> "NotADirectoryError"
                            [] OTHER -> "none")
        /\ call.raised # "none" =>
              /\ found_files = call.before
              /\ GetUniqueMatches(found_files) = GetUniqueMatches(call.before)
              /\ SearcherStatistics(found_files) = SearcherStatistics(call.before)

\* A failed search of a root that has become a regular file, after a search that had
\* found files for other targets.
C18_Witness ==
    /\ call.op = "search_files"
    /\ call.raised = "NotADirectoryError"
    /\ Len(GetUniqueMatches(found_files)) >= 2
    /\ Keys(found_files) # Range(call.targets)
    /\ call.targets # <<>>


(***************************************************************************)
(* The output folder <<"o">>.  out.entries is kept in the order iterdir    *)
(* yields it (the order of OutOrder).                                      *)
(***************************************************************************)
OutRoot == <<"o">>

\* output_folder / filename
Join(folder, filename) == Append(folder, filename)

OutOrder ==
    << <<"o", "a.mp4">>, <<"o", "a_1.mp4">>, <<"o", "A.MP4">>, <<"o", "b.mkv">>, <<"o", "b.mkv", "b.mkv">>,
       <<"o", "s.mp4">>, <<"o", "c.txt">>, <<"o", "sub">>, <<"o", "sub", "s.mp4">> >>

File(path, content) == [path |-> path, kind |-> "file", content |-> content, target |-> <<>>]

Dir(path) == [path |-> path, kind |-> "dir", content |-> <<>>, target |-> <<>>]

RECURSIVE PutLoop(_, _, _)
PutLoop(entries, e, order) ==
    IF order = <<>> THEN <<>>
    ELSE LET p == Head(order)
             old == {k \in 1..Len(entries) : entries[k].path = p}
         IN  (IF p = e.path THEN <<e>>
              ELSE IF old # {} THEN <<entries[CHOOSE k \in old : TRUE]>>
              ELSE <<>>) \o PutLoop(entries, e, Tail(order))

\* The tree with the file or directory e created or replaced.
Put(entries, e) == PutLoop(entries, e, OutOrder)

\* The tree with the entries at the paths gone removed.
RECURSIVE Remove(_, _)
Remove(entries, gone) ==
    IF entries = <<>> THEN <<>>
    ELSE IF Head(entries).path \in gone THEN Remove(Tail(entries), gone)
    ELSE <<Head(entries)>> \o Remove(Tail(entries), gone)

IsDir(entries, path) ==
    \E k \in 1..Len(entries) : entries[k].path = path /\ entries[k].kind = "dir"

\* Path.iterdir(): the direct children, in order.
RECURSIVE IterDir(_, _)
IterDir(entries, folder) ==
    IF entries = <<>> THEN <<>>
    ELSE IF Parent(Head(entries).path) = folder
    THEN <<Head(entries).path>> \o IterDir(Tail(entries), folder)
    ELSE IterDir(Tail(entries), folder)

(***************************************************************************)
(* FileCopier.                                                             *)
(***************************************************************************)
CopyResult(source_path, destination_path, success, error_message, bytes_copied, skipped, skip_reason) ==
    [source_path |-> source_path, destination_path |-> destination_path,
     success |-> success, error_message |-> error_message, bytes_copied |-> bytes_copied,
     skipped |-> skipped, skip_reason |-> skip_reason]

\* str(duplicate_index), on characters
IndexChars(duplicate_index) ==
    CASE duplicate_index = 1 -> <<"1">>
      [] duplicate_index = 2 -> <<"2">>

\* Path(filename).suffix, on characters: from the last dot, unless the dot is the first
\* or the last character.
Suffix(cs) ==
    IF RFind(cs, ".") > 1 /\ RFind(cs, ".") < Len(cs)
    THEN SubSeq(cs, RFind(cs, "."), Len(cs))
    ELSE <<>>

\* Path(filename).stem, on characters
Stem(cs) == SubSeq(cs, 1, Len(cs) - Len(Suffix(cs)))

\* f"{stem}_{duplicate_index}{suffix}"
WithIndex(filename, duplicate_index) ==
    Str(Stem(CharsOf[filename]) \o <<"_">> \o IndexChars(duplicate_index)
        \o Suffix(CharsOf[filename]))

\* A destination that renames the files found in subdirectories of the media folder.
DestinationPathRenamesNested(c, file_result, output_folder) ==
    IF Len(file_result.full_path) > 2
    THEN Join(output_folder, WithIndex(file_result.filename, 1))
    ELSE Join(output_folder, file_result.filename)

\* _get_destination_path for copy_unique_files (no target_filename, index 0): both
\* branches of maintain_structure join the output folder and file_result.filename.
DestinationPath(c, file_result, output_folder) ==
    IF c.maintain_structure
    THEN Join(output_folder, file_result.filename)
    ELSE Join(output_folder, file_result.filename)

\* shutil.copy2(source, destination): into the directory when the destination is one.
CopyTarget(o_entries, source_path, destination_path) ==
    IF IsDir(o_entries, destination_path)
    THEN Join(destination_path, Name(source_path))
    ELSE destination_path

\* A source test that never finds the source missing.
SourceMissingNever(m_entries, source_path) == FALSE

\* _copy_single_file: not source_path.exists()
SourceMissing(m_entries, source_path) == ~Exists(m_entries, source_path)

\* A skip test that does not look at overwrite_existing.
ShouldSkipWheneverExists(c, o_entries, destination_path) ==
    Exists(o_entries, destination_path)

\* A skip test that never skips.
ShouldSkipNever(c, o_entries, destination_path) == FALSE

\* _copy_single_file: the destination exists and overwriting is disabled.
ShouldSkip(c, o_entries, destination_path) ==
    Exists(o_entries, destination_path) /\ ~c.overwrite_existing

\* The try block of _copy_single_file.  fault is what the environment does to
\* this file: "none", "PermissionError" (raised before the destination is opened),
\* "OSError" (raised while writing: the destination is left truncated) or
\* "KeyboardInterrupt" (delivered before the destination is opened).  A source that
\* is not there makes source_path.stat() raise FileNotFoundError, an OSError.
TryCopy(c, m_entries, o_entries, source_path, destination_path, fault) ==
    IF fault = "KeyboardInterrupt"
    THEN [exc |-> "KeyboardInterrupt", entries |-> o_entries]
    ELSE IF SourceMissing(m_entries, source_path)
    THEN [exc |-> "none", entries |-> o_entries,
          result |-> CopyResult(source_path, destination_path, FALSE,
                                "Source file does not exist", 0, FALSE, None)]
    ELSE IF ShouldSkip(c, o_entries, destination_path)
    THEN [exc |-> "none", entries |-> o_entries,
          result |-> CopyResult(source_path, destination_path, FALSE, None, 0, TRUE,
                                "Destination file already exists and overwrite is disabled")]
    ELSE IF fault = "PermissionError"
    THEN [exc |-> "PermissionError", entries |-> o_entries]
    ELSE IF ~Exists(m_entries, source_path)
    THEN [exc |-> "OSError", entries |-> o_entries]
    ELSE IF fault = "OSError"
    THEN [exc |-> "OSError",
          entries |-> Put(o_entries,
                          File(CopyTarget(o_entries, source_path, destination_path), <<>>))]
    ELSE [exc |-> "none",
          entries |-> Put(o_entries,
                          File(CopyTarget(o_entries, source_path, destination_path),
                               Content(m_entries, source_path))),
          result |-> CopyResult(source_path, destination_path, TRUE, None,
                                StatSize(m_entries, source_path), FALSE, None)]

\* The except clauses of _copy_single_file with the OSError clause missing.
HandleCopyErrorNoOSError(source_path, destination_path, t) ==
    IF t.exc = "none"
    THEN [raised |-> "none", entries |-> t.entries, result |-> t.result]
    ELSE IF t.exc = "PermissionError"
    THEN [raised |-> "none", entries |-> t.entries,
          result |-> CopyResult(source_path, destination_path, FALSE,
                                "Permission denied", 0, FALSE, None)]
    ELSE [raised |-> t.exc, entries |-> t.entries]

\* The except clauses of _copy_single_file: PermissionError, OSError, Exception.
\* A KeyboardInterrupt is no Exception and passes through.
HandleCopyError(source_path, destination_path, t) ==
    IF t.exc = "none"
    THEN [raised |-> "none", entries |-> t.entries, result |-> t.result]
    ELSE IF t.exc = "PermissionError"
    THEN [raised |-> "none", entries |-> t.entries,
          result |-> CopyResult(source_path, destination_path, FALSE,
                                "Permission denied", 0, FALSE, None)]
    ELSE IF t.exc = "OSError"
    THEN [raised |-> "none", entries |-> t.entries,
          result |-> CopyResult(source_path, destination_path, FALSE,
                                "OS error", 0, FALSE, None)]
    ELSE [raised |-> t.exc, entries |-> t.entries]

\* _copy_single_file(source_path, destination_path)
CopySingleFile(c, m_entries, o_entries, source_path, destination_path, fault) ==
    HandleCopyError(source_path, destination_path,
                    TryCopy(c, m_entries, o_entries, source_path, destination_path, fault))

\* The loop of copy_unique_files over the remaining inputs: every way it can end,
\* for every fault the environment may inject at each file.
RECURSIVE CopyUniqueLoop(_, _, _, _, _, _)
CopyUniqueLoop(c, m_entries, o_entries, file_results, results, faults) ==
    IF file_results = <<>>
    THEN {[raised |-> "none", results |-> results, entries |-> o_entries]}
    ELSE LET file_result == Head(file_results)
             destination_path == DestinationPath(c, file_result, OutRoot)
         IN  UNION {
               LET r == CopySingleFile(c, m_entries, o_entries, file_result.full_path,
                                       destination_path, fault)
               IN  IF r.raised # "none"
                   THEN {[raised |-> r.raised, results |-> results, entries |-> r.entries]}
                   ELSE CopyUniqueLoop(c, m_entries, r.entries, Tail(file_results),
                                       Append(results, r.result), faults)
               : fault \in faults }

\* copy_unique_files(file_results, output_folder): every way the call can end.
\* mkdir is what output_folder.mkdir does: "ok", or the exception it raises.
CopyUniqueFiles(c, m_entries, o, old_results, file_results, mkdir, faults) ==
    IF o.root # "dir" /\ mkdir # "ok"
    THEN {[raised |-> mkdir, results |-> old_results, out |-> o]}
    ELSE {[raised |-> r.raised, results |-> r.results,
           out |-> [root |-> "dir", entries |-> r.entries]] :
            r \in CopyUniqueLoop(c, m_entries, o.entries, file_results, <<>>, faults)}

\* _get_destination_path(file_result, output_folder, target_filename, duplicate_index)
GetDestinationPath(c, file_result, output_folder, target_filename, duplicate_index) ==
    IF c.maintain_structure
    THEN Join(output_folder, file_result.filename)
    ELSE LET filename == IF target_filename # None THEN target_filename
                         ELSE file_result.filename
         IN  Join(output_folder,
                  IF duplicate_index > 0 THEN WithIndex(filename, duplicate_index)
                  ELSE filename)

\* enumerate(file_results) for one target: the copy attempts, numbered from i.
RECURSIVE Enumerate(_, _, _)
Enumerate(target_filename, file_results, i) ==
    IF file_results = <<>> THEN <<>>
    ELSE <<[target_filename |-> target_filename, duplicate_index |-> i,
            file_result |-> Head(file_results)]>>
         \o Enumerate(target_filename, Tail(file_results), i + 1)

\* The two nested loops of copy_files: the copy attempts in order.  A target
\* without results contributes none.
RECURSIVE CopyJobs(_)
CopyJobs(search_results) ==
    IF search_results = <<>> THEN <<>>
    ELSE Enumerate(Head(search_results).key, Head(search_results).results, 0)
         \o CopyJobs(Tail(search_results))

\* The loop of copy_files over the remaining attempts: every way it can end.
RECURSIVE CopyFilesLoop(_, _, _, _, _, _)
CopyFilesLoop(c, m_entries, o_entries, jobs, results, faults) ==
    IF jobs = <<>>
    THEN {[raised |-> "none", results |-> results, entries |-> o_entries]}
    ELSE LET job == Head(jobs)
             destination_path == GetDestinationPath(c, job.file_result, OutRoot,
                                                    job.target_filename,
                                                    job.duplicate_index)
         IN  UNION {
               LET r == CopySingleFile(c, m_entries, o_entries, job.file_result.full_path,
                                       destination_path, fault)
               IN  IF r.raised # "none"
                   THEN {[raised |-> r.raised, results |-> results, entries |-> r.entries]}
                   ELSE CopyFilesLoop(c, m_entries, r.entries, Tail(jobs),
                                      Append(results, r.result), faults)
               : fault \in faults }

\* A copy_files that appends to the outcomes of the earlier calls.
CopyFilesKeepsOld(c, m_entries, o, old_results, search_results, mkdir, faults) ==
    IF o.root # "dir" /\ mkdir # "ok"
    THEN {[raised |-> mkdir, results |-> old_results, out |-> o]}
    ELSE {[raised |-> r.raised, results |-> r.results,
           out |-> [root |-> "dir", entries |-> r.entries]] :
            r \in CopyFilesLoop(c, m_entries, o.entries, CopyJobs(search_results),
                                old_results, faults)}

\* copy_files(search_results, output_folder): every way the call can end.
CopyFiles(c, m_entries, o, old_results, search_results, mkdir, faults) ==
    IF o.root # "dir" /\ mkdir # "ok"
    THEN {[raised |-> mkdir, results |-> old_results, out |-> o]}
    ELSE {[raised |-> r.raised, results |-> r.results,
           out |-> [root |-> "dir", entries |-> r.entries]] :
            r \in CopyFilesLoop(c, m_entries, o.entries, CopyJobs(search_results),
                                <<>>, faults)}

\* get_statistics()
RECURSIVE SumBytes(_)
SumBytes(results) ==
    IF results = <<>> THEN 0
    ELSE (IF Head(results).success THEN Head(results).bytes_copied ELSE 0)
         + SumBytes(Tail(results))

\* Statistics whose errors count every outcome that did not succeed.
CopierStatisticsErrorsNotSuccess(results) ==
    [total_files |-> Len(results),
     successful |-> Cardinality({i \in 1..Len(results) : results[i].success}),
     skipped |-> Cardinality({i \in 1..Len(results) : results[i].skipped}),
     errors |-> Cardinality({i \in 1..Len(results) : ~results[i].success}),
     total_bytes_copied |-> SumBytes(results)]

CopierStatistics(results) ==
    [total_files |-> Len(results),
     successful |-> Cardinality({i \in 1..Len(results) : results[i].success}),
     skipped |-> Cardinality({i \in 1..Len(results) : results[i].skipped}),
     errors |-> Cardinality({i \in 1..Len(results) :
                                ~results[i].success /\ ~results[i].skipped}),
     total_bytes_copied |-> SumBytes(results)]

\* generate_report(): the statistics of the header, and the lines of the error and
\* of the skipped sections (a section is absent when its count is zero).
RECURSIVE ReportLines(_, _)
ReportLines(results, section) ==
    IF results = <<>> THEN <<>>
    ELSE (IF section = "errors" /\ ~Head(results).success /\ ~Head(results).skipped
          THEN <<[source_path |-> Head(results).source_path,
                  text |-> Head(results).error_message]>>
          ELSE IF section = "skipped" /\ Head(results).skipped
          THEN <<[source_path |-> Head(results).source_path,
                  text |-> Head(results).skip_reason]>>
          ELSE <<>>) \o ReportLines(Tail(results), section)

GenerateReport(results) ==
    LET stats == CopierStatistics(results)
    IN  [stats |-> stats,
         errors |-> IF stats.errors > 0 THEN ReportLines(results, "errors") ELSE <<>>,
         skipped |-> IF stats.skipped > 0 THEN ReportLines(results, "skipped") ELSE <<>>]

RECURSIVE FilterPaths(_, _)
FilterPaths(paths, keep) ==
    IF paths = <<>> THEN <<>>
    ELSE IF Head(paths) \in keep THEN <<Head(paths)>> \o FilterPaths(Tail(paths), keep)
    ELSE FilterPaths(Tail(paths), keep)

\* The existing_files of a cleanup that does not test the extension.
ExistingMediaFilesAnyExtension(o_entries, output_folder) ==
    FilterPaths(IterDir(o_entries, output_folder),
                {p \in Range(IterDir(o_entries, output_folder)) : IsFile(o_entries, p)})

\* clean_output_folder: existing_files
ExistingMediaFiles(o_entries, output_folder) ==
    FilterPaths(IterDir(o_entries, output_folder),
                {p \in Range(IterDir(o_entries, output_folder)) :
                    IsFile(o_entries, p) /\ HasSupportedExtension(Name(p))})

\* The files_to_remove of a cleanup that compares names case-insensitively.
FilesToRemoveLower(existing_files, expected_filenames) ==
    FilterPaths(existing_files,
                {p \in Range(existing_files) :
                    Lower(Name(p)) \notin {Lower(n) : n \in expected_filenames}})

\* The files_to_remove of a cleanup whose membership test is inverted.
FilesToRemoveInverted(existing_files, expected_filenames) ==
    FilterPaths(existing_files,
                {p \in Range(existing_files) : Name(p) \in expected_filenames})

\* clean_output_folder: files_to_remove
FilesToRemove(existing_files, expected_filenames) ==
    FilterPaths(existing_files,
                {p \in Range(existing_files) : Name(p) \notin expected_filenames})

\* A removal loop without the try/except around unlink: the first failure ends it.
RECURSIVE RemoveLoopUnguarded(_, _, _)
RemoveLoopUnguarded(o_entries, files_to_remove, failing) ==
    IF files_to_remove = <<>>
    THEN [raised |-> "none", removed_files |-> <<>>, entries |-> o_entries]
    ELSE IF Head(files_to_remove) \in failing
    THEN [raised |-> "OSError", removed_files |-> <<>>, entries |-> o_entries]
    ELSE LET r == RemoveLoopUnguarded(Remove(o_entries, {Head(files_to_remove)}),
                                      Tail(files_to_remove), failing)
         IN  [r EXCEPT !.removed_files = <<Head(files_to_remove)>> \o @]

\* clean_output_folder: the loop over files_to_remove.  The unlink of a file in
\* failing raises; the except clause logs it and the loop goes on.
RECURSIVE RemoveLoop(_, _, _)
RemoveLoop(o_entries, files_to_remove, failing) ==
    IF files_to_remove = <<>>
    THEN [raised |-> "none", removed_files |-> <<>>, entries |-> o_entries]
    ELSE IF Head(files_to_remove) \in failing
    THEN RemoveLoop(o_entries, Tail(files_to_remove), failing)
    ELSE LET r == RemoveLoop(Remove(o_entries, {Head(files_to_remove)}),
                             Tail(files_to_remove), failing)
         IN  [r EXCEPT !.removed_files = <<Head(files_to_remove)>> \o @]

\* clean_output_folder(output_folder, expected_filenames): every way it can end;
\* the environment makes the unlink of the files in failing raise.
CleanOutputFolder(o, expected_filenames) ==
    IF o.root # "dir"
    THEN {[raised |-> "none", failed |-> {}, ret |-> <<>>, out |-> o]}
    ELSE LET files_to_remove ==
                 FilesToRemove(ExistingMediaFiles(o.entries, OutRoot), expected_filenames)
         IN  {LET r == RemoveLoop(o.entries, files_to_remove, failing)
              IN  [raised |-> r.raised, failed |-> failing, ret |-> r.removed_files,
                   out |-> [root |-> "dir", entries |-> r.entries]] :
                 failing \in SUBSET Range(files_to_remove)}



(***************************************************************************)
(* The FileCopier called on its own.                                       *)
(***************************************************************************)
\* The access failures the environment may inject at one file.
AccessFaults == {"none", "PermissionError", "OSError"}

\* Media trees at copy time: a file found by the search may have gone since.
CopierMediaTrees ==
    {[root |-> "dir",
      entries |-> SelectSeq2(MediaCandidates, Range(MediaCandidates) \ gone)] :
        gone \in {{}, {MediaCandidates[1]}, {MediaCandidates[2]}}}

OutFixed ==
    {File(<<"o", "c.txt">>, <<7>>), Dir(<<"o", "sub">>), File(<<"o", "sub", "s.mp4">>, <<6>>)}

RECURSIVE PutAll(_, _)
PutAll(entries, new) ==
    IF new = {} THEN entries
    ELSE LET e == CHOOSE x \in new : TRUE
         IN  PutAll(Put(entries, e), new \ {e})

\* Output folders a copy may find: absent, or holding the fixed entries and any of
\* an older a.mp4 and a directory named b.mkv.
OutTrees ==
    {[root |-> "dir", entries |-> PutAll(<<>>, OutFixed \cup keep)] :
        keep \in SUBSET {File(<<"o", "a.mp4">>, <<9>>), Dir(<<"o", "b.mkv">>)}}
    \cup {[root |-> "missing", entries |-> <<>>]}

\* Output folders a cleanup may find: absent, or holding the fixed entries and any
\* of a.mp4, A.MP4, s.mp4 and a file or a directory named b.mkv.
CleanupOutTrees ==
    {[root |-> "dir", entries |-> PutAll(<<>>, OutFixed \cup keep \cup b)] :
        keep \in SUBSET {File(<<"o", "a.mp4">>, <<9>>), File(<<"o", "A.MP4">>, <<3>>),
                         File(<<"o", "s.mp4">>, <<8>>)},
        b \in {{}, {File(<<"o", "b.mkv">>, <<2, 2>>)}, {Dir(<<"o", "b.mkv">>)}}}
    \cup {[root |-> "missing", entries |-> <<>>]}

\* What a search of the whole media tree gives the copier.
CopySources ==
    {FileSearchResult(MediaCandidates, "a.mp4", <<"m", "a.mp4">>),
     FileSearchResult(MediaCandidates, "a.mp4", <<"m", "sub", "a.mp4">>),
     FileSearchResult(MediaCandidates, "b.mkv", <<"m", "b.mkv">>)}

\* Lists of unique matches: no path twice.
CopyBatches ==
    {b \in SeqsUpTo(CopySources, MaxBatch) :
        \A i, j \in 1..Len(b) : b[i].full_path = b[j].full_path => i = j}

ExpectedNames == {"a.mp4", "b.mkv", "s.mp4"}

HasError(results) ==
    \E i \in 1..Len(results) : ~results[i].success /\ ~results[i].skipped

InitCopier ==
    /\ cfg \in [case_sensitive : {FALSE}, overwrite_existing : BOOLEAN,
                maintain_structure : {FALSE}, recursive_search : {TRUE},
                follow_symlinks : {FALSE}]
    /\ playlist = [exists |-> FALSE, valid |-> FALSE, segments |-> <<>>]
    /\ media \in CopierMediaTrees
    /\ out \in OutTrees
    /\ media_files = <<>>
    /\ found_files = <<>>
    /\ copy_results = <<>>
    /\ call = NoCall
    /\ run = <<>>

\* The step of a copy_unique_files(batch, output_folder) call.
CopyUniqueFilesStep(batch, again) ==
    \E mkdir \in (IF out.root = "dir" THEN {"ok"} ELSE {"ok", "PermissionError"}) :
        \E r \in CopyUniqueFiles(cfg, media.entries, out, copy_results, batch, mkdir,
                                 AccessFaults) :
            /\ out' = r.out
            /\ copy_results' = r.results
            /\ call' = [op |-> "copy_unique_files", input |-> batch, mkdir |-> mkdir,
                        raised |-> r.raised, ret |-> r.results, again |-> again,
                        after_errors |-> again /\ HasError(call.ret),
                        out_changed |-> r.out # out, before |-> out]
            /\ UNCHANGED <<cfg, playlist, media, parserVars, searcherVars, run>>

\* FileCopier.copy_unique_files(file_results, output_folder) on a new FileCopier
CopyUniqueFilesCall ==
    /\ call.op = "none"
    /\ \E batch \in CopyBatches : CopyUniqueFilesStep(batch, FALSE)

\* The same call once more: the identical input list and output folder.
CopyUniqueFilesAgain ==
    /\ call.op = "copy_unique_files"
    /\ call.raised = "none"
    /\ CopyUniqueFilesStep(call.input, TRUE)

NextCopier == CopyUniqueFilesCall \/ CopyUniqueFilesAgain

SpecCopier == InitCopier /\ [][NextCopier]_vars

(***************************************************************************)
(* One FileCopier used for a session of calls: copy_files,                 *)
(* copy_unique_files, clean_output_folder and the three read-only methods, *)
(* in any order.  run records the last copy call: its attempts (source and *)
(* destination of each input, in order), how it ended, how many outcomes   *)
(* the list held before it, and that list when mkdir raised.               *)
(***************************************************************************)
\* Search results given to copy_files: no target, a target without a match, and a
\* target with two matches followed by one without and one with one match.
SessionSearchResults ==
    {<<>>,
     <<[key |-> "s.mp4", results |-> <<>>]>>,
     <<[key |-> "a.mp4",
        results |-> <<FileSearchResult(MediaCandidates, "a.mp4", <<"m", "a.mp4">>),
                      FileSearchResult(MediaCandidates, "a.mp4", <<"m", "sub", "a.mp4">>)>>],
       [key |-> "s.mp4", results |-> <<>>],
       [key |-> "b.mkv",
        results |-> <<FileSearchResult(MediaCandidates, "b.mkv", <<"m", "b.mkv">>)>>]>>}

\* Lists given to copy_unique_files: empty, one file, and two files of one name.
SessionBatches ==
    {<<>>,
     <<FileSearchResult(MediaCandidates, "b.mkv", <<"m", "b.mkv">>)>>,
     <<FileSearchResult(MediaCandidates, "a.mp4", <<"m", "a.mp4">>),
       FileSearchResult(MediaCandidates, "a.mp4", <<"m", "sub", "a.mp4">>)>>}

SessionOutTrees ==
    {[root |-> "missing", entries |-> <<>>], [root |-> "file", entries |-> <<>>],
     [root |-> "dir", entries |-> PutAll(<<>>, OutFixed \cup {File(<<"o", "s.mp4">>, <<8>>)})]}

SessionFaults == {"none", "PermissionError", "KeyboardInterrupt"}

\* output_folder.mkdir(parents=True, exist_ok=True): nothing to do for a directory,
\* FileExistsError for a regular file, and success or PermissionError otherwise.
MkdirOutcomes(o) ==
    IF o.root = "dir" THEN {"ok"}
    ELSE IF o.root = "file" THEN {"FileExistsError"}
    ELSE {"ok", "PermissionError"}

RECURSIVE UniqueAttempts(_, _)
UniqueAttempts(c, file_results) ==
    IF file_results = <<>> THEN <<>>
    ELSE <<[source_path |-> Head(file_results).full_path,
            destination_path |-> DestinationPath(c, Head(file_results), OutRoot)]>>
         \o UniqueAttempts(c, Tail(file_results))

RECURSIVE JobAttempts(_, _)
JobAttempts(c, jobs) ==
    IF jobs = <<>> THEN <<>>
    ELSE <<[source_path |-> Head(jobs).file_result.full_path,
            destination_path |-> GetDestinationPath(c, Head(jobs).file_result, OutRoot,
                                                    Head(jobs).target_filename,
                                                    Head(jobs).duplicate_index)]>>
         \o JobAttempts(c, Tail(jobs))

NoCopyYet == [op |-> "none", attempts |-> <<>>, raised |-> "none", mkdir |-> "ok",
              earlier |-> 0, before |-> <<>>]

InitSession ==
    /\ cfg \in [case_sensitive : {FALSE}, overwrite_existing : BOOLEAN,
                maintain_structure : BOOLEAN, recursive_search : {TRUE},
                follow_symlinks : {FALSE}]
    /\ playlist = [exists |-> FALSE, valid |-> FALSE, segments |-> <<>>]
    /\ media = [root |-> "dir", entries |-> MediaCandidates]
    /\ out \in SessionOutTrees
    /\ media_files = <<>>
    /\ found_files = <<>>
    /\ copy_results = <<>>
    /\ call = NoCall
    /\ run = NoCopyYet

\* The step of a copy call that can end in the ways of outcomes.
SessionCopyStep(op, attempts, mkdir, outcomes) ==
    \E r \in outcomes :
        /\ out' = r.out
        /\ copy_results' = r.results
        /\ call' = [op |-> op, raised |-> r.raised]
        /\ run' = [op |-> op, attempts |-> attempts, raised |-> r.raised,
                   mkdir |-> IF out.root = "dir" THEN "ok" ELSE mkdir,
                   earlier |-> Len(copy_results),
                   before |-> IF out.root # "dir" /\ mkdir # "ok" THEN copy_results
                              ELSE <<>>]
        /\ UNCHANGED <<cfg, playlist, media, parserVars, searcherVars>>

\* copy_files(search_results, output_folder)
SessionCopyFiles ==
    \E search_results \in SessionSearchResults : \E mkdir \in MkdirOutcomes(out) :
        SessionCopyStep("copy_files", JobAttempts(cfg, CopyJobs(search_results)), mkdir,
                        CopyFiles(cfg, media.entries, out, copy_results, search_results,
                                  mkdir, SessionFaults))

\* copy_unique_files(file_results, output_folder)
SessionCopyUniqueFiles ==
    \E batch \in SessionBatches : \E mkdir \in MkdirOutcomes(out) :
        SessionCopyStep("copy_unique_files", UniqueAttempts(cfg, batch), mkdir,
                        CopyUniqueFiles(cfg, media.entries, out, copy_results, batch,
                                        mkdir, SessionFaults))

\* clean_output_folder(output_folder, expected_filenames)
SessionCleanOutputFolder ==
    \E expected \in {{"a.mp4", "b.mkv"}} :
        \E r \in CleanOutputFolder(out, expected) :
            /\ r.failed = {}
            /\ out' = r.out
            /\ call' = [op |-> "clean_output_folder", raised |-> r.raised, ret |-> r.ret,
                        results_before |-> copy_results]
            /\ UNCHANGED <<cfg, playlist, media, parserVars, searcherVars, copierVars, run>>

\* get_statistics()
SessionGetStatistics ==
    /\ call' = [op |-> "get_statistics", raised |-> "none",
                ret |-> CopierStatistics(copy_results)]
    /\ UNCHANGED <<cfg, fsVars, parserVars, searcherVars, copierVars, run>>

\* get_copy_results()
SessionGetCopyResults ==
    /\ call' = [op |-> "get_copy_results", raised |-> "none", ret |-> copy_results]
    /\ UNCHANGED <<cfg, fsVars, parserVars, searcherVars, copierVars, run>>

\* generate_report()
SessionGenerateReport ==
    /\ call' = [op |-> "generate_report", raised |-> "none",
                ret |-> GenerateReport(copy_results)]
    /\ UNCHANGED <<cfg, fsVars, parserVars, searcherVars, copierVars, run>>

\* The output folder is removed between two calls.
OutputRemoved ==
    /\ out.root = "dir"
    /\ copy_results # <<>>
    /\ out' = [root |-> "missing", entries |-> <<>>]
    /\ UNCHANGED <<cfg, playlist, media, parserVars, searcherVars, copierVars, call, run>>

NextSession ==
    \/ SessionCopyFiles \/ SessionCopyUniqueFiles \/ SessionCleanOutputFolder
    \/ SessionGetStatistics \/ SessionGetCopyResults \/ SessionGenerateReport
    \/ OutputRemoved

SpecSession == InitSession /\ [][NextSession]_vars

\* The sum of bytes_copied over the outcomes of results at the indices in which.
RECURSIVE BytesOver(_, _)
BytesOver(results, which) ==
    IF which = {} THEN 0
    ELSE LET i == CHOOSE x \in which : TRUE
         IN  results[i].bytes_copied + BytesOver(results, which \ {i})

\* C22: in every state of a FileCopier used through its methods, no outcome of the
\* list is both succeeded and skipped, bytes_copied is non-zero only in succeeded
\* outcomes, and the statistics computed from the list have successful + skipped +
\* errors = total_files and total_bytes_copied = the sum of bytes_copied over the
\* succeeded outcomes; get_statistics returns these statistics.
C22_OutcomeIsOneOfThree ==
    /\ \A i \in 1..Len(copy_results) :
          /\ ~(copy_results[i].success /\ copy_results[i].skipped)
          /\ copy_results[i].bytes_copied # 0 => copy_results[i].success
    /\ \E stats \in {CopierStatistics(copy_results)} :
          /\ stats.successful + stats.skipped + stats.errors = stats.total_files
          /\ stats.total_files = Len(copy_results)
          /\ stats.total_bytes_copied =
                BytesOver(copy_results,
                          {i \in 1..Len(copy_results) : copy_results[i].success})
          /\ call.op = "get_statistics" => call.ret = stats

\* get_statistics after a copy_files call with one outcome of each kind.
C22_Witness ==
    /\ call.op = "get_statistics"
    /\ run.op = "copy_files"
    /\ call.ret.successful = 1 /\ call.ret.skipped = 1 /\ call.ret.errors = 1
    /\ call.ret.total_bytes_copied > 0

\* results holds, in order, one outcome for each of the first Len(results) attempts.
Describes(results, attempts) ==
    /\ Len(results) <= Len(attempts)
    /\ \A i \in 1..Len(results) :
          /\ results[i].source_path = attempts[i].source_path
          /\ results[i].destination_path = attempts[i].destination_path

\* C25 (as stated): after every call of copy_files or copy_unique_files the outcome
\* list holds outcomes of that call alone, one for each of its attempts when the call
\* returned; and clean_output_folder leaves the outcome list as it was.
C25_OnlyLastCallOutcomes ==
    /\ run.op # "none" =>
          /\ Describes(copy_results, run.attempts)
          /\ run.raised = "none" => Len(copy_results) = Len(run.attempts)
    /\ call.op = "clean_output_folder" => copy_results = call.results_before

\* C25 (amended): a call of copy_files or copy_unique_files whose mkdir of the output
\* folder raises leaves the outcome list as it was; every other call discards the
\* earlier outcomes, and after it the list holds outcomes of that call alone, one for
\* each attempt when the call returned and for the attempts before the exception when
\* it raised.  get_statistics, get_copy_results and generate_report describe that list,
\* and clean_output_folder leaves it as it was.
C25_LastCallPastMkdirOutcomes ==
    /\ run.op # "none" =>
          IF run.mkdir # "ok"
          THEN run.raised = run.mkdir /\ copy_results = run.before
          ELSE /\ Describes(copy_results, run.attempts)
               /\ run.raised = "none" => Len(copy_results) = Len(run.attempts)
               /\ call.op = "get_statistics" =>
                     /\ call.ret.total_files <= Len(run.attempts)
                     /\ run.raised = "none" => call.ret.total_files = Len(run.attempts)
               /\ call.op = "get_copy_results" => Describes(call.ret, run.attempts)
               /\ call.op = "generate_report" =>
                     /\ call.ret.stats.total_files <= Len(run.attempts)
                     /\ \A k \in 1..Len(call.ret.errors) :
                           \E i \in 1..Len(run.attempts) :
                               run.attempts[i].source_path = call.ret.errors[k].source_path
                     /\ \A k \in 1..Len(call.ret.skipped) :
                           \E i \in 1..Len(run.attempts) :
                               run.attempts[i].source_path = call.ret.skipped[k].source_path
    /\ call.op = "clean_output_folder" => copy_results = call.results_before

\* get_copy_results after a copy call that returned, had attempts, and found outcomes
\* of an earlier call in the list.
C25_Witness ==
    /\ call.op = "get_copy_results"
    /\ run.op \in {"copy_files", "copy_unique_files"}
    /\ run.mkdir = "ok" /\ run.raised = "none"
    /\ run.earlier > Len(run.attempts)
    /\ run.attempts # <<>>
    /\ Len(call.ret) = Len(run.attempts)

(***************************************************************************)
(* The cleanup called on its own.                                          *)
(***************************************************************************)
InitCleanup ==
    /\ cfg = DefaultCfg
    /\ playlist = [exists |-> FALSE, valid |-> FALSE, segments |-> <<>>]
    /\ media = [root |-> "dir", entries |-> <<>>]
    /\ out \in CleanupOutTrees
    /\ media_files = <<>>
    /\ found_files = <<>>
    /\ copy_results = <<>>
    /\ call = NoCall
    /\ run = <<>>

\* FileCopier.clean_output_folder(output_folder, expected_filenames)
CleanOutputFolderCall ==
    \E expected \in SUBSET ExpectedNames :
        \E r \in CleanOutputFolder(out, expected) :
            /\ out' = r.out
            /\ call' = [op |-> "clean_output_folder", expected |-> expected,
                        raised |-> r.raised, ret |-> r.ret, failed |-> r.failed,
                        before |-> out]
            /\ UNCHANGED <<cfg, playlist, media, parserVars, searcherVars, copierVars, run>>

NextCleanup == CleanOutputFolderCall

SpecCleanup == InitCleanup /\ [][NextCleanup]_vars




(***************************************************************************)
(* C1: cleanup never deletes a file whose name is in the expected set:     *)
(* after clean_output_folder returns, every file that was in the output    *)
(* folder before the call and whose name is in expected_filenames is still *)
(* there, unchanged, and is not in the returned list.                      *)
(***************************************************************************)
C1_ExpectedFilesKept ==
    call.op = "clean_output_folder" =>
        \A k \in 1..Len(call.before.entries) :
            LET e == call.before.entries[k]
            IN  (e.kind = "file" /\ Name(e.path) \in call.expected) =>
                    /\ e \in Range(out.entries)
                    /\ e.path \notin Range(call.ret)

\* A cleanup has removed a stale file and kept an expected media file beside it.
C1_Witness ==
    /\ call.op = "clean_output_folder"
    /\ call.ret # <<>>
    /\ \E k \in 1..Len(call.before.entries) :
          LET e == call.before.entries[k]
          IN  /\ e.kind = "file" /\ Parent(e.path) = OutRoot
              /\ HasSupportedExtension(Name(e.path))
              /\ Name(e.path) \in call.expected
              /\ e \in Range(out.entries)

\* The media files directly inside the output folder, before the last cleanup,
\* whose name is not in its expected set.
C2_Stale ==
    {e \in Range(call.before.entries) :
        /\ e.kind = "file" /\ Parent(e.path) = OutRoot
        /\ HasSupportedExtension(Name(e.path))
        /\ Name(e.path) \notin call.expected}

(***************************************************************************)
(* C2 as stated: after clean_output_folder returns, no regular file that   *)
(* is a direct child of the output folder, has a supported extension and   *)
(* has a name not in expected_filenames still exists.                      *)
(***************************************************************************)
C2_AlwaysDeletesStale ==
    call.op = "clean_output_folder" =>
        \A e \in C2_Stale : ~Exists(out.entries, e.path)

(***************************************************************************)
(* C2 amended: after clean_output_folder returns, every regular file that  *)
(* was a direct child of the output folder, has a supported extension and  *)
(* has a name not in expected_filenames is either gone and in the returned *)
(* list, or its deletion raised and it is still there and not returned.    *)
(***************************************************************************)
C2_DeletesStaleUnlessUnlinkFails ==
    call.op = "clean_output_folder" =>
        \A e \in C2_Stale :
            IF e.path \in call.failed
            THEN e \in Range(out.entries) /\ e.path \notin Range(call.ret)
            ELSE ~Exists(out.entries, e.path) /\ e.path \in Range(call.ret)

\* A cleanup has deleted two stale media files, one of them A.MP4 beside an
\* expected a.mp4.
C2_Witness ==
    /\ call.op = "clean_output_folder"
    /\ call.failed = {}
    /\ "a.mp4" \in call.expected
    /\ Exists(out.entries, <<"o", "a.mp4">>)
    /\ <<"o", "A.MP4">> \in Range(call.ret)
    /\ <<"o", "s.mp4">> \in Range(call.ret)

\* The index in the folder listing before the last cleanup of the entry at path.
IndexBefore(path) ==
    CHOOSE k \in 1..Len(call.before.entries) : call.before.entries[k].path = path

\* C20: clean_output_folder raises nothing also when the deletion of some files fails;
\* every other stale media file of the folder is deleted, whether it comes before or
\* after a failing one; the returned list holds, once each, exactly the paths that were
\* in the folder before the call and are gone after it; and every file whose deletion
\* failed is still there, unchanged, and is not in the returned list.
C20_DeletionFailuresIsolated ==
    call.op = "clean_output_folder" =>
        /\ call.raised = "none"
        /\ \A e \in C2_Stale : e.path \notin call.failed => ~Exists(out.entries, e.path)
        /\ Range(call.ret) =
              {e.path : e \in {x \in Range(call.before.entries) :
                                  ~Exists(out.entries, x.path)}}
        /\ \A i, j \in 1..Len(call.ret) : call.ret[i] = call.ret[j] => i = j
        /\ \A p \in call.failed :
              /\ p \notin Range(call.ret)
              /\ call.before.entries[IndexBefore(p)] \in Range(out.entries)

\* A cleanup in which the deletion of one stale file failed and a stale file listed
\* after it was deleted.
C20_Witness ==
    /\ call.op = "clean_output_folder"
    /\ call.raised = "none"
    /\ \E p \in call.failed : \E i \in 1..Len(call.ret) :
          IndexBefore(p) < IndexBefore(call.ret[i])

(***************************************************************************)
(* C3: cleanup is restricted to direct children with a supported           *)
(* extension: it leaves unchanged every file inside a subdirectory, every  *)
(* subdirectory, and every direct-child file without a supported           *)
(* extension, whatever the expected set; and when the output folder does   *)
(* not exist it returns an empty list without creating it.                 *)
(***************************************************************************)
C3_CleanupFrame ==
    call.op = "clean_output_folder" =>
        /\ \A k \in 1..Len(call.before.entries) :
              LET e == call.before.entries[k]
              IN  (\/ Parent(e.path) # OutRoot
                   \/ e.kind = "dir"
                   \/ ~HasSupportedExtension(Name(e.path))) =>
                        e \in Range(out.entries) /\ e.path \notin Range(call.ret)
        /\ \A p \in Range(call.ret) :
              /\ Parent(p) = OutRoot
              /\ IsFile(call.before.entries, p)
              /\ HasSupportedExtension(Name(p))
        /\ call.before.root # "dir" => (call.ret = <<>> /\ out = call.before)

\* A cleanup with an empty expected set has removed a media file from a folder that
\* also holds a directory named b.mkv, a nested s.mp4 and c.txt.
C3_Witness ==
    /\ call.op = "clean_output_folder"
    /\ call.expected = {}
    /\ call.ret # <<>>
    /\ IsDir(out.entries, <<"o", "b.mkv">>)
    /\ IsFile(out.entries, <<"o", "sub", "s.mp4">>)
    /\ IsFile(out.entries, <<"o", "c.txt">>)

C5_FailuresStayPerFile ==
    (call.op = "copy_unique_files" /\ (call.mkdir = "ok" \/ call.raised = "none")) =>
        /\ call.raised = "none"
        /\ Len(call.ret) = Len(call.input)
        /\ copy_results = call.ret
        /\ \A i \in 1..Len(call.ret) :
              /\ call.ret[i].source_path = call.input[i].full_path
              /\ call.ret[i].destination_path = Join(OutRoot, call.input[i].filename)
              /\ ~Exists(media.entries, call.input[i].full_path) =>
                    (~call.ret[i].success /\ ~call.ret[i].skipped)
              /\ (~call.ret[i].success /\ ~call.ret[i].skipped) =>
                    call.ret[i].error_message # None
              /\ call.ret[i].success => call.ret[i].error_message = None

\* A batch whose first file hit an OS error and whose second file was copied.
C5_Witness ==
    /\ call.op = "copy_unique_files"
    /\ call.raised = "none"
    /\ Len(call.ret) = 2
    /\ call.ret[1].error_message = "OS error"
    /\ ~call.ret[1].success
    /\ call.ret[2].success


C16_DestinationsDistinctInBatch ==
    (call.op = "copy_unique_files" /\ call.raised = "none") =>
        \A i, j \in 1..Len(call.ret) :
            call.ret[i].destination_path = call.ret[j].destination_path => i = j

\* The pairs of inputs of the last copy_unique_files call that have the same filename,
\* the earlier input first.
SameNamePairs ==
    {p \in (1..Len(call.input)) \X (1..Len(call.input)) :
        /\ p[1] < p[2]
        /\ call.input[p[1]].filename = call.input[p[2]].filename}

ValidateArguments(doc, m, o) ==
    /\ doc.exists
    /\ m.root = "dir"
    /\ o.root # "file"

\* The exit status of the process when exc leaves the try block of run_application.
\* The except clauses log through the local variable logger: when it is not yet
\* assigned, they raise UnboundLocalError, which leaves run_application and main, and
\* the interpreter exits with status 1.
ExceptExit(exc, logger_bound) ==
    IF ~logger_bound THEN 1
    ELSE IF exc = "KeyboardInterrupt" THEN 130
    ELSE 1

\* A test for no matches that never holds.
NoMatchesFoundNever(search_stats) == FALSE

\* run_application: search_stats['total_matches'] == 0
NoMatchesFound(search_stats) == search_stats.total_matches = 0

\* A step 3 that copies also in a dry run.
AfterSearchAlwaysCopy(args) == "copy"

\* run_application: step 3 is the preview of a dry run, or the copy.
AfterSearch(args) == IF args.dry_run THEN "dry" ELSE "copy"

\* A step 4 after which the report is never written.
AfterCleanNoReport(args) == "return"

\* run_application: after step 4 the report is written when one was requested.
AfterClean(args) == IF args.report THEN "report" ELSE "return"

\* run_application: the status returned after the copy branch.
FinalStatus(copy_stats) == IF copy_stats.errors > 0 THEN 2 ELSE 0

\* Expected names taken in lower case, as the case-insensitive search compares them.
ExpectedFilenamesLower(unique_files) ==
    {Lower(unique_files[i].filename) : i \in 1..Len(unique_files)}

\* expected_filenames = [file_result.filename for file_result in unique_files]
ExpectedFilenames(unique_files) == {unique_files[i].filename : i \in 1..Len(unique_files)}

RunPlaylists ==
    {[exists |-> TRUE, valid |-> TRUE, segments |-> segs] :
        segs \in {<<>>, <<"c.txt">>, <<"a.mp4", "b.mkv">>, <<"A.MP4", "d/a.mp4">>}}
    \cup {[exists |-> TRUE, valid |-> FALSE, segments |-> <<>>],
          [exists |-> FALSE, valid |-> FALSE, segments |-> <<>>]}

RunMediaTrees ==
    {[root |-> "dir", entries |-> SelectSeq2(MediaCandidates, FixedEntries \cup keep)] :
        keep \in {{}, OptionalEntries}}
    \cup {[root |-> "dir", entries |-> <<>>],
          [root |-> "missing", entries |-> <<>>], [root |-> "file", entries |-> <<>>]}

RunOutTrees ==
    {[root |-> "dir", entries |-> PutAll(<<>>, OutFixed \cup keep)] :
        keep \in {{}, {File(<<"o", "a.mp4">>, <<9>>), File(<<"o", "s.mp4">>, <<8>>)}}}
    \cup {[root |-> "missing", entries |-> <<>>], [root |-> "file", entries |-> <<>>]}

RunArgs == [dry_run : BOOLEAN, clean_output : BOOLEAN, report : BOOLEAN]

InitRun ==
    /\ cfg \in [case_sensitive : BOOLEAN, overwrite_existing : BOOLEAN,
                maintain_structure : BOOLEAN, recursive_search : {TRUE},
                follow_symlinks : {FALSE}]
    /\ playlist \in RunPlaylists
    /\ media \in RunMediaTrees
    /\ out \in RunOutTrees
    /\ media_files = <<>>
    /\ found_files = <<>>
    /\ copy_results = <<>>
    /\ call = NoCall
    /\ \E a \in RunArgs :
          run = [pc |-> "main", args |-> a, entered |-> FALSE, logger |-> FALSE,
                 exit_code |-> -1,
                 interrupted |-> FALSE, exception |-> FALSE, seen |-> {},
                 out0 |-> out, report_written |-> FALSE, unique_files |-> <<>>,
                 order |-> <<>>, expected_filenames |-> {}, removed_files |-> <<>>]

\* The run ends with this exit status.
Exit(r, status) == [r EXCEPT !.pc = "done", !.exit_code = status]

\* An exception exc leaves the try block.
Raise(r, exc) ==
    [Exit(r, ExceptExit(exc, r.logger)) EXCEPT !.exception = TRUE]

Then(r, pc, stage) == [r EXCEPT !.pc = pc, !.order = Append(@, stage)]

\* main(): validate_arguments, then sys.exit(1) or run_application
Validate ==
    /\ run.pc = "main"
    /\ run' = IF ValidateArguments(playlist, media, out)
              THEN [run EXCEPT !.pc = "setup", !.entered = TRUE]
              ELSE Exit([run EXCEPT !.seen =
                            {x \in {"playlist_missing"} : ~playlist.exists}
                            \cup {x \in {"media_missing"} : media.root = "missing"}
                            \cup {x \in {"media_not_dir"} : media.root = "file"}
                            \cup {x \in {"output_not_dir"} : out.root = "file"}], 1)
    /\ UNCHANGED <<cfg, fsVars, parserVars, searcherVars, copierVars, call>>

\* run_application: Config(config_file) and setup_logger(...); either may raise.
Setup ==
    /\ run.pc = "setup"
    /\ \E exc \in {"none", "Exception"} :
          run' = IF exc = "none"
                 THEN [run EXCEPT !.pc = "parse", !.logger = TRUE]
                 ELSE Raise(run, exc)
    /\ UNCHANGED <<cfg, fsVars, parserVars, searcherVars, copierVars, call>>

\* Step 1: parse_playlist, and the return when no media file was found.
ParseStep ==
    /\ run.pc = "parse"
    /\ LET r == ParsePlaylist(playlist, media_files)
       IN  /\ media_files' = r.media_files
           /\ run' = IF r.raised # "none"
                     THEN Raise([run EXCEPT !.seen =
                                    @ \cup {x \in {"playlist_missing"} :
                                               r.raised = "FileNotFoundError"}],
                                r.raised)
                     ELSE IF r.ret = <<>>
                     THEN Exit([run EXCEPT !.seen = @ \cup {"no_media"},
                                           !.order = Append(@, "parsed")], 1)
                     ELSE Then(run, "search", "parsed")
    /\ UNCHANGED <<cfg, fsVars, searcherVars, copierVars, call>>

\* Step 2: search_files, get_statistics, and the return when nothing matched.
SearchStep ==
    /\ run.pc = "search"
    /\ LET r == SearchFiles(cfg, media, media_files, found_files)
           none == Len(AllResults(r.found_files)) = 0
       IN  /\ found_files' = r.found_files
           /\ run' = IF r.raised # "none"
                     THEN Raise([run EXCEPT !.seen =
                                    @ \cup {x \in {"media_missing"} :
                                               r.raised = "FileNotFoundError"}
                                      \cup {x \in {"media_not_dir"} :
                                               r.raised = "NotADirectoryError"}],
                                r.raised)
                     ELSE LET seen == [run EXCEPT
                                        !.seen = @ \cup {x \in {"no_matches"} : none}]
                          IN  IF NoMatchesFound(SearcherStatistics(r.found_files))
                              THEN Exit(Then(seen, "done", "searched"), 1)
                              ELSE Then(seen, AfterSearch(run.args), "searched")
    /\ UNCHANGED <<cfg, fsVars, parserVars, copierVars, call>>

\* Step 3 and 4 of a dry run: the copies and the removals are only logged.
DryRunStep ==
    /\ run.pc = "dry"
    /\ run' = Exit([run EXCEPT !.unique_files = GetUniqueMatches(found_files)], 0)
    /\ UNCHANGED <<cfg, fsVars, parserVars, searcherVars, copierVars, call>>

\* Step 3: copy_unique_files(unique_files, output_folder) and get_statistics().
CopyStep ==
    /\ run.pc = "copy"
    /\ LET unique_files == GetUniqueMatches(found_files)
       IN  \E mkdir \in (IF out.root = "dir" THEN {"ok"} ELSE {"ok", "PermissionError"}) :
             \E r \in CopyUniqueFiles(cfg, media.entries, out, copy_results, unique_files,
                                      mkdir, AccessFaults \cup {"KeyboardInterrupt"}) :
                 /\ out' = r.out
                 /\ copy_results' = r.results
                 /\ run' = IF r.raised = "KeyboardInterrupt"
                           THEN [Exit(run, ExceptExit(r.raised, run.logger))
                                    EXCEPT !.interrupted = TRUE,
                                           !.unique_files = unique_files]
                           ELSE IF r.raised # "none"
                           THEN Raise([run EXCEPT !.unique_files = unique_files], r.raised)
                           ELSE Then([run EXCEPT !.unique_files = unique_files],
                                     IF run.args.clean_output THEN "clean"
                                     ELSE IF run.args.report THEN "report"
                                     ELSE "return",
                                     "copied")
    /\ UNCHANGED <<cfg, playlist, media, parserVars, searcherVars, call>>

\* Step 4: clean_output_folder(output_folder, expected_filenames)
CleanStep ==
    /\ run.pc = "clean"
    /\ \E r \in CleanOutputFolder(out, ExpectedFilenames(run.unique_files)) :
          /\ out' = r.out
          /\ run' = Then([run EXCEPT !.expected_filenames =
                                          ExpectedFilenames(run.unique_files),
                                      !.removed_files = r.ret],
                          AfterClean(run.args), "cleaned")
    /\ UNCHANGED <<cfg, playlist, media, parserVars, searcherVars, copierVars, call>>

\* generate_report() and report_path.write_text(...), which may raise.
ReportStep ==
    /\ run.pc = "report"
    /\ \E exc \in {"none", "OSError"} :
          run' = IF exc = "none"
                 THEN Then([run EXCEPT !.report_written = TRUE], "return", "reported")
                 ELSE Raise(run, exc)
    /\ UNCHANGED <<cfg, fsVars, parserVars, searcherVars, copierVars, call>>

\* The return of the copy branch: 2 when there were copy errors, else 0.
ReturnStep ==
    /\ run.pc = "return"
    /\ run' = Exit(Then(run, "done", "returned"),
                   FinalStatus(CopierStatistics(copy_results)))
    /\ UNCHANGED <<cfg, fsVars, parserVars, searcherVars, copierVars, call>>

\* A KeyboardInterrupt is delivered while run_application is executing.
Interrupt ==
    /\ run.pc \in {"setup", "parse", "search", "dry", "copy", "clean", "report", "return"}
    /\ run' = [Exit(run, ExceptExit("KeyboardInterrupt", run.logger))
                  EXCEPT !.interrupted = TRUE]
    /\ UNCHANGED <<cfg, fsVars, parserVars, searcherVars, copierVars, call>>

\* The playlist is removed after the arguments were validated.
PlaylistVanishes ==
    /\ run.pc \in {"setup", "parse"}
    /\ playlist.exists
    /\ playlist' = [exists |-> FALSE, valid |-> FALSE, segments |-> <<>>]
    /\ UNCHANGED <<cfg, media, out, parserVars, searcherVars, copierVars, call, run>>

\* The media folder is removed after the arguments were validated.
MediaVanishes ==
    /\ run.pc \in {"setup", "parse", "search"}
    /\ media.root = "dir"
    /\ media' = [root |-> "missing", entries |-> <<>>]
    /\ UNCHANGED <<cfg, playlist, out, parserVars, searcherVars, copierVars, call, run>>

\* A matched file is removed between the search and the copy.
SourceVanishes ==
    /\ run.pc = "copy"
    /\ \E k \in 1..Len(media.entries) :
          /\ media.entries[k].kind = "file"
          /\ \E i \in 1..Len(AllResults(found_files)) :
                AllResults(found_files)[i].full_path = media.entries[k].path
          /\ media' = [media EXCEPT !.entries = Remove(@, {media.entries[k].path})]
    /\ UNCHANGED <<cfg, playlist, out, parserVars, searcherVars, copierVars, call, run>>

NextRun ==
    \/ Validate \/ Setup \/ ParseStep \/ SearchStep \/ DryRunStep \/ CopyStep
    \/ CleanStep \/ ReportStep \/ ReturnStep \/ Interrupt
    \/ PlaylistVanishes \/ MediaVanishes \/ SourceVanishes

SpecRun == InitRun /\ [][NextRun]_vars


\* The copy outcomes of sources that are not in the media folder.
Gone == {i \in 1..Len(copy_results) : ~Exists(media.entries, copy_results[i].source_path)}

\* C7 (as stated): a finished run of run_application exits with 130 when a keyboard
\* interrupt was delivered at any point of it, else with 1 when an unexpected exception
\* reached the top level or the parser yielded no media filename or the search no
\* match, else with 2 when it was not a dry run and some outcome is an error, else 0.
C7_ExitStatusByOutcome ==
    (run.pc = "done" /\ run.entered) =>
        run.exit_code =
            IF run.interrupted THEN 130
            ELSE IF run.exception \/ "no_media" \in run.seen \/ "no_matches" \in run.seen
            THEN 1
            ELSE IF ~run.args.dry_run /\ HasError(copy_results) THEN 2
            ELSE 0

\* C8: a run in which the playlist was found missing, the media folder missing or not
\* a directory, no media filename extracted or no match found ends with a non-zero
\* exit status, and at its end the output folder is as it was before the run (nothing
\* copied, nothing deleted, the directory not created), no copy outcome was recorded
\* and no report was written.
C8_FatalConditionsHaltBeforeCopying ==
    (/\ run.pc = "done"
     /\ run.seen \cap {"playlist_missing", "media_missing", "media_not_dir",
                       "no_media", "no_matches"} # {}) =>
        /\ run.exit_code \notin {-1, 0}
        /\ out = run.out0
        /\ copy_results = <<>>
        /\ ~run.report_written

C8_Witness ==
    /\ run.pc = "done"
    /\ "no_matches" \in run.seen
    /\ run.exit_code = 1
    /\ ~run.args.dry_run /\ run.args.clean_output /\ run.args.report
    /\ out.root = "missing"
    /\ Len(media_files) = 2

\* C9: once the copy step of a run has returned, every outcome whose source is no longer
\* in the media folder has success false, skipped false and an error message, whatever
\* overwrite_existing is and whether or not the destination exists; get_statistics
\* counts exactly the outcomes that are neither successes nor skips under errors and
\* exactly the skipped ones under skipped; and when such a run goes on to its end
\* without an interrupt and without an unexpected exception, its exit status is 2.
C9_MissingSourceIsError ==
    (\E k \in 1..Len(run.order) : run.order[k] = "copied") =>
        LET stats == CopierStatistics(copy_results)
        IN  /\ \A i \in Gone :
                  /\ ~copy_results[i].success
                  /\ ~copy_results[i].skipped
                  /\ copy_results[i].error_message # None
            /\ stats.errors = Cardinality({i \in 1..Len(copy_results) :
                                  ~copy_results[i].success /\ ~copy_results[i].skipped})
            /\ stats.skipped = Cardinality({i \in 1..Len(copy_results) :
                                  copy_results[i].skipped})
            /\ (run.pc = "done" /\ Gone # {} /\ ~run.interrupted /\ ~run.exception)
                  => run.exit_code = 2

C9_Witness ==
    /\ run.pc = "done"
    /\ run.exit_code = 2
    /\ ~cfg.overwrite_existing
    /\ \E i \in Gone :
          /\ Exists(out.entries, copy_results[i].destination_path)
          /\ Exists(run.out0.entries, copy_results[i].destination_path)
    /\ \E i \in 1..Len(copy_results) : copy_results[i].success


\* C17: in every run with --dry-run, with or without --clean-output and --report, the
\* output folder stays as it was before the run (nothing copied into it, nothing
\* deleted from it, the directory not created), no copy outcome is recorded and no
\* report is written; and when the search found at least one match and the run went
\* to its end without an interrupt or an unexpected exception, its exit status is 0.
C17_DryRunChangesNothing ==
    run.args.dry_run =>
        /\ out = run.out0
        /\ copy_results = <<>>
        /\ ~run.report_written
        /\ (/\ run.pc = "done"
            /\ \E k \in 1..Len(run.order) : run.order[k] = "searched"
            /\ Len(AllResults(found_files)) > 0
            /\ ~run.interrupted /\ ~run.exception) => run.exit_code = 0

\* A finished dry run with --clean-output and --report that found matches, on an
\* output folder holding a stale media file the cleanup would remove.
C17_Witness ==
    /\ run.pc = "done"
    /\ run.args.dry_run /\ run.args.clean_output /\ run.args.report
    /\ run.exit_code = 0
    /\ Len(run.unique_files) >= 2
    /\ IsFile(out.entries, <<"o", "s.mp4">>)
    /\ "s.mp4" \notin ExpectedFilenames(run.unique_files)


\* C21: in a run that copies and then cleans, for either value of case_sensitive and of
\* maintain_structure, the name of every destination path of the copy outcomes is in
\* the expected set given to clean_output_folder, no destination path is among the
\* removed files, and every destination that the copy wrote or skipped is still in the
\* output folder after the cleanup.
C21_CleanupKeepsWhatCopyProduced ==
    "cleaned" \in Range(run.order) =>
        \A i \in 1..Len(copy_results) :
            /\ Name(copy_results[i].destination_path) \in run.expected_filenames
            /\ copy_results[i].destination_path \notin Range(run.removed_files)
            /\ (copy_results[i].success \/ copy_results[i].skipped)
                  => Exists(out.entries, copy_results[i].destination_path)

\* A case-insensitive run with maintain_structure set copied m/A.MP4 for a target of
\* another case, and its cleanup removed a stale file and kept o/A.MP4.
C21_Witness ==
    /\ "cleaned" \in Range(run.order)
    /\ ~cfg.case_sensitive
    /\ cfg.maintain_structure
    /\ run.removed_files # <<>>
    /\ \E i \in 1..Len(copy_results) :
          /\ copy_results[i].success
          /\ copy_results[i].destination_path = <<"o", "A.MP4">>
          /\ IsFile(out.entries, <<"o", "A.MP4">>)


\* The place of a stage in the pipeline.
StageRank(stage) ==
    CASE stage = "parsed" -> 1
      [] stage = "searched" -> 2
      [] stage = "copied" -> 3
      [] stage = "cleaned" -> 4
      [] stage = "reported" -> 5
      [] stage = "returned" -> 6

\* C23: in a run that is not a dry run the completed stages are in the order parse,
\* search, copy, cleanup, report, return, each at most once: nothing is searched before
\* the parse is complete, nothing copied or written to the output folder before the
\* search is complete, nothing deleted before the copy is complete, and the report is
\* written after the cleanup.  A run that returns from the copy branch, with status 0
\* or 2, has by then done the cleanup when it was requested and written the report
\* when it was requested.
C23_StagesInFixedOrder ==
    ~run.args.dry_run =>
        /\ \A i, j \in 1..Len(run.order) :
              i < j => StageRank(run.order[i]) < StageRank(run.order[j])
        /\ \A i \in 1..Len(run.order) :
              IF i <= 3 THEN StageRank(run.order[i]) = i ELSE StageRank(run.order[i]) > 3
        /\ found_files # <<>> => "parsed" \in Range(run.order)
        /\ (copy_results # <<>> \/ out # run.out0) => "searched" \in Range(run.order)
        /\ run.removed_files # <<>> => "copied" \in Range(run.order)
        /\ run.report_written =>
              /\ "copied" \in Range(run.order)
              /\ run.args.clean_output => "cleaned" \in Range(run.order)
        /\ "returned" \in Range(run.order) =>
              /\ run.exit_code \in {0, 2}
              /\ "copied" \in Range(run.order)
              /\ run.args.clean_output => "cleaned" \in Range(run.order)
              /\ run.args.report => run.report_written

\* A run with copy errors that cleaned, wrote its report and then returned 2.
C23_Witness ==
    /\ run.pc = "done"
    /\ run.exit_code = 2
    /\ run.removed_files # <<>>
    /\ run.report_written
    /\ run.order = <<"parsed", "searched", "copied", "cleaned", "reported", "returned">>

=============================================================================
